---------------------------- MODULE Spec2Model ----------------------------
(***************************************************************************)
(* Model of the Florida coastal LiDAR viewer (App component).              *)
(*                                                                         *)
(* Conventions                                                             *)
(*   - A JavaScript string whose characters matter (quality labels, state  *)
(*     codes) is a sequence of one-character strings.                      *)
(*   - undefined / absent values are tagged records, so that `||` and `?.` *)
(*     are modelled by what they do.                                       *)
(*   - Elevations (the slider value, the Z attribute, the ramp stops) are  *)
(*     in tenths of a metre, the slider's step.                            *)
(*   - Timestamps are in days since the epoch.                             *)
(***************************************************************************)
EXTENDS Integers, Sequences, FiniteSets, TLC

VARIABLES
    \* React state and refs of App
    colorScheme,      \* useState("elevation")
    seaLevel,         \* useState(1.5), in tenths
    basemapMode,      \* useState("positron")
    mapReady,         \* useState(false)
    lidarLayerIds,    \* lidarLayerIdsRef.current
    \* the map instance held by mapRef.current
    mapLayers,        \* layer id -> layer (or NoLayer)
    noaaSource,       \* the "noaa-slr" GeoJSON source
    noaaLayers,       \* which of the two overlay layers exist
    \* the fetch of NOAA_SLR_URL started by the load handler
    fetchState,       \* "none" | "pending" | "loaded" | "failed"
    response,         \* what the network delivers to the pending fetch
    \* the LiDAR control behind lidarControlRef.current
    controlHasLoad,   \* whether it exposes loadDataset
    loadCalls,        \* arguments loadDataset was called with, in order
    searchEvent,      \* the search-complete event being delivered
    searchHandled,    \* whether handleSearchComplete has run on it
    sorted,           \* handleSearchComplete's local of that name, as last set
    \* the browser
    console,          \* messages written to the console
    uncaught,         \* an error escaped a handler
    \* history variables
    sinceLoad,        \* ids present at the last load completion and ever since
    loadEvent,        \* << >>, or the last load-complete event in a tuple
    map0,             \* the layers before the first style call (SpecApply)
    ops,              \* the style calls made so far (SpecApply)
    \* getQualityScore called on its own
    qlArg,            \* its argument
    qlRet             \* {} before the call, {result} after

vars == << colorScheme, seaLevel, basemapMode, mapReady, lidarLayerIds,
           mapLayers, noaaSource, noaaLayers, fetchState, response,
           controlHasLoad, loadCalls, searchEvent, searchHandled, sorted,
           console, uncaught, sinceLoad, loadEvent, map0, ops, qlArg, qlRet >>

-----------------------------------------------------------------------------
(* Bounds of the model *)

MaxLabelLen == 6      \* characters in a quality label
MaxResults == 3       \* descriptors in a search result
MaxFeatures == 4      \* features in the fetched GeoJSON
MaxLayerIds == 2      \* identifiers in a load-complete event
MaxOps == 2           \* style calls in a row (SpecApply)
MaxLoads == 1         \* loadDataset calls in a session (Spec)

-----------------------------------------------------------------------------
(* JavaScript values *)

\* a string-or-undefined value whose characters matter
Undefined == [t |-> "undefined", s |-> << >>]
Str(s) == [t |-> "string", s |-> s]

\* falsy: undefined and the empty string
Truthy(v) == v.t = "string" /\ v.s # << >>

\* a || b
Or(a, b) == IF Truthy(a) THEN a ELSE b

\* String.prototype.toUpperCase on the characters the model uses
UpperChar(c) ==
    CASE c = "q" -> "Q"
      [] c = "l" -> "L"
      [] c = "f" -> "F"
      [] c = "g" -> "G"
      [] c = "a" -> "A"
      [] c = "x" -> "X"
      [] OTHER -> c

toUpperCase(s) == [i \in 1..Len(s) |-> UpperChar(s[i])]

\* String.prototype.includes
includes(s, needle) ==
    \E i \in 0..(Len(s) - Len(needle)) :
        \A j \in 1..Len(needle) : s[i + j] = needle[j]

-----------------------------------------------------------------------------
(* getQualityScore *)

\* a variant: the label is matched without being uppercased
getQualityScoreCaseSensitive(qualityLevel) ==
    LET normalized == Or(qualityLevel, Str(<< >>)).s
    IN  IF includes(normalized, <<"Q", "L", "0">>) THEN 0
        ELSE IF includes(normalized, <<"Q", "L", "1">>) THEN 1
        ELSE IF includes(normalized, <<"Q", "L", "2">>) THEN 2
        ELSE IF includes(normalized, <<"Q", "L", "3">>) THEN 3
        ELSE 9

getQualityScore(qualityLevel) ==
    LET normalized == toUpperCase(Or(qualityLevel, Str(<< >>)).s)
    IN  IF includes(normalized, <<"Q", "L", "0">>) THEN 0
        ELSE IF includes(normalized, <<"Q", "L", "1">>) THEN 1
        ELSE IF includes(normalized, <<"Q", "L", "2">>) THEN 2
        ELSE IF includes(normalized, <<"Q", "L", "3">>) THEN 3
        ELSE 9

-----------------------------------------------------------------------------
(* Dataset descriptors and their dates *)

\* a date-like field: absent, or a string (a TLA+ string: only Date's reading
\* of it matters)
NoDate == [t |-> "undefined", s |-> ""]
DateStr(s) == [t |-> "string", s |-> s]
DateTruthy(v) == v.t = "string" /\ v.s # ""

\* a JavaScript number that may be NaN
NaN == [nan |-> TRUE, v |-> 0]
Num(n) == [nan |-> FALSE, v |-> n]
Minus(a, b) == IF a.nan \/ b.nan THEN NaN ELSE Num(a.v - b.v)

\* new Date(s).getTime() for a string s: the instant it denotes, in days
\* since the epoch, NaN when Date cannot parse it
DateParse(s) ==
    CASE s = "2019-01-01" -> Num(17897)
      [] s = "2020-01-01" -> Num(18262)
      [] s = "2021-01-01" -> Num(18628)
      [] OTHER -> NaN

\* new Date(a.publicationDate || a.date || 0).getTime()
TimeOf(a) ==
    IF DateTruthy(a.publicationDate) THEN DateParse(a.publicationDate.s)
    ELSE IF DateTruthy(a.date) THEN DateParse(a.date.s)
    ELSE Num(0)

\* the comparator handed to sort
CompareResults(a, b) ==
    LET qualityDiff == getQualityScore(a.qualityLevel) - getQualityScore(b.qualityLevel)
    IN  IF qualityDiff # 0 THEN Num(qualityDiff)
        ELSE Minus(TimeOf(b), TimeOf(a))

-----------------------------------------------------------------------------
(* Array.prototype.sort (ECMA-262, SortIndexedProperties) *)

\* CompareArrayElements: a NaN from the comparator counts as +0
SortCompare(a, b) ==
    LET v == CompareResults(a, b) IN IF v.nan THEN 0 ELSE v.v

Elems(s) == { s[i] : i \in 1..Len(s) }

\* "consistent comparator" for the values being sorted: it never returns
\* NaN, and <, =, > behave as an ordering
ConsistentComparator(s) ==
    LET v == [a \in Elems(s), b \in Elems(s) |-> SortCompare(a, b)]
    IN  /\ \A a, b \in Elems(s) : ~CompareResults(a, b).nan
        /\ \A a \in Elems(s) : v[a, a] = 0
        /\ \A a, b \in Elems(s) : v[a, b] = 0 => v[b, a] = 0
        /\ \A a, b, c \in Elems(s) :
            /\ v[a, b] = 0 /\ v[b, c] = 0 => v[a, c] = 0
            /\ v[a, b] < 0 /\ v[b, c] < 0 => v[a, c] < 0
            /\ v[a, b] > 0 /\ v[b, c] > 0 => v[a, c] > 0

\* x placed before the first element it compares below
RECURSIVE InsertSorted(_, _)
InsertSorted(x, s) ==
    IF s = << >> THEN << x >>
    ELSE IF SortCompare(x, Head(s)) < 0 THEN << x >> \o s
    ELSE << Head(s) >> \o InsertSorted(x, Tail(s))

\* the stable sort the standard requires of a consistent comparator
RECURSIVE StableSort(_)
StableSort(s) ==
    IF s = << >> THEN << >>
    ELSE InsertSorted(s[Len(s)], StableSort(SubSeq(s, 1, Len(s) - 1)))

Arrangements(s) ==
    { [i \in 1..Len(s) |-> s[p[i]]] :
        p \in { q \in [1..Len(s) -> 1..Len(s)] :
                  \A i, j \in 1..Len(s) : q[i] = q[j] => i = j } }

\* no two neighbours are the wrong way round for the comparator
NeighboursInOrder(r) ==
    \A i \in 1..(Len(r) - 1) : SortCompare(r[i], r[i + 1]) <= 0

\* the arrays [...results].sort(comparator) may produce: the stable sort
\* when the comparator is consistent; otherwise the order is
\* implementation-defined. The engines sort by insertion and by merging,
\* which place an element next to another only after comparing the two, so
\* the result is some arrangement whose neighbours are in order.
SortOutcomes(s) ==
    IF ConsistentComparator(s)
    THEN { StableSort(s) }
    ELSE { r \in Arrangements(s) : NeighboursInOrder(r) }

-----------------------------------------------------------------------------
(* handleSearchComplete *)

\* a results field: absent, or an array of descriptors
NoResults == [t |-> "undefined", a |-> << >>]
Results(a) == [t |-> "array", a |-> a]

\* a variant: an empty array taken for falsy
ResultsTruthyNonEmpty(r) == r.t = "array" /\ r.a # << >>

\* every array is truthy, the empty one too
ResultsTruthy(r) == r.t = "array"

\* event?.detail?.results || event?.results || []
EventResults(event) ==
    IF ResultsTruthy(event.detail) THEN event.detail.a
    ELSE IF ResultsTruthy(event.top) THEN event.top.a
    ELSE << >>

\* best && lidarControlRef.current?.loadDataset: loadDataset(best)
LoadBest(best) ==
    IF controlHasLoad
    THEN loadCalls' = Append(loadCalls, best)
    ELSE UNCHANGED loadCalls

handleSearchComplete(event) ==
    LET results == EventResults(event)
    IN  /\ console' = console \cup {"LiDAR search complete"}
        /\ IF Len(results) = 0
           THEN UNCHANGED << loadCalls, sorted >>
           ELSE /\ sorted' \in SortOutcomes(results)
                /\ LoadBest(sorted'[1])

-----------------------------------------------------------------------------
(* The map's layers *)

\* the layers the LiDAR control may add, in style order
LayerOrder == << "usgs-lidar-points", "lidar-footprints" >>
LayerUniverse == { LayerOrder[i] : i \in 1..Len(LayerOrder) }

\* layer.type
LayerType(id) == IF id = "usgs-lidar-points" THEN "circle" ELSE "fill"

\* layer.id, spelled out
IdChars(id) ==
    IF id = "usgs-lidar-points"
    THEN <<"u","s","g","s","-","l","i","d","a","r","-","p","o","i","n","t","s">>
    ELSE <<"l","i","d","a","r","-","f","o","o","t","p","r","i","n","t","s">>

\* a layer that is not in the map; one just added has neither paint nor filter
NoLayer == [present |-> FALSE, paint |-> << >>, filter |-> << >>]
NewLayer == [present |-> TRUE, paint |-> << >>, filter |-> << >>]
NoLayers == [id \in LayerUniverse |-> NoLayer]

\* map.getLayer(layerId), as a condition
getLayer(layers, layerId) == layers[layerId].present

\* a variant: a point-color already set is kept
setPaintPropertyKeepFirst(layers, layerId, value) ==
    IF layers[layerId].paint = << >>
    THEN [layers EXCEPT ![layerId].paint = value]
    ELSE layers

\* map.setPaintProperty(layerId, "point-color", value)
setPaintProperty(layers, layerId, value) ==
    [layers EXCEPT ![layerId].paint = value]

\* map.setFilter(layerId, value)
setFilter(layers, layerId, value) ==
    [layers EXCEPT ![layerId].filter = value]

-----------------------------------------------------------------------------
(* applyColorScheme *)

ColorSchemes == { "elevation", "intensity", "classification", "rgb" }

\* COLOR_RAMPS.elevation.ramp, the stops in tenths of a metre
ElevationRamp ==
    << <<0, "#0d47a1">>, <<10, "#1976d2">>, <<25, "#26c6da">>,
       <<35, "#fdd835">>, <<50, "#ef5350">> >>

\* Array.prototype.flat
RECURSIVE flat(_)
flat(a) == IF a = << >> THEN << >> ELSE Head(a) \o flat(Tail(a))

\* the point-color expression of each scheme
PaintExpr(scheme) ==
    CASE scheme = "elevation" ->
            << "interpolate", <<"linear">>, <<"get", "Z">> >> \o flat(ElevationRamp)
      [] scheme = "intensity" ->
            << "interpolate", <<"linear">>, <<"get", "Intensity">>,
               0, "#212121", 255, "#f5f5f5" >>
      [] scheme = "classification" ->
            << "match", <<"get", "Classification">>,
               2, "#4caf50", 7, "#1976d2", 9, "#ffb300", 10, "#ef5350",
               "#9e9e9e" >>
      [] scheme = "rgb" ->
            << "rgb", <<"get", "Red">>, <<"get", "Green">>, <<"get", "Blue">> >>

\* a variant: the paint is set without asking whether the layer exists
PaintLayerUnguarded(layers, layerId, scheme) ==
    IF scheme \in ColorSchemes
    THEN setPaintProperty(layers, layerId, PaintExpr(scheme))
    ELSE layers

\* the body of applyColorScheme's forEach
PaintLayer(layers, layerId, scheme) ==
    IF ~getLayer(layers, layerId) THEN layers
    ELSE IF scheme \in ColorSchemes
         THEN setPaintProperty(layers, layerId, PaintExpr(scheme))
         ELSE layers

RECURSIVE applyColorScheme(_, _, _)
applyColorScheme(layers, ids, scheme) ==
    IF ids = << >> THEN layers
    ELSE applyColorScheme(PaintLayer(layers, Head(ids), scheme), Tail(ids), scheme)

-----------------------------------------------------------------------------
(* applySeaLevelFilter *)

\* a variant: points at the threshold itself are dropped
SeaLevelFilterStrict(threshold) == << ">", <<"get", "Z">>, threshold >>

\* [">=", ["get", "Z"], threshold]
SeaLevelFilter(threshold) == << ">=", <<"get", "Z">>, threshold >>

\* a filter the LiDAR control may have put on a layer of its own
ControlFilter == << "==", <<"get", "Classification">>, 2 >>

\* whether the map renders point p, a record of attributes, under a filter
FilterAccepts(filter, p) ==
    CASE filter = << >> -> TRUE
      [] filter # << >> /\ filter[1] = ">=" -> p[filter[2][2]] >= filter[3]
      [] filter # << >> /\ filter[1] = ">" -> p[filter[2][2]] > filter[3]
      [] filter # << >> /\ filter[1] = "==" -> p[filter[2][2]] = filter[3]

\* the body of applySeaLevelFilter's forEach
FilterLayer(layers, layerId, threshold) ==
    IF getLayer(layers, layerId)
    THEN setFilter(layers, layerId, SeaLevelFilter(threshold))
    ELSE layers

RECURSIVE applySeaLevelFilter(_, _, _)
applySeaLevelFilter(layers, ids, threshold) ==
    IF ids = << >> THEN layers
    ELSE applySeaLevelFilter(FilterLayer(layers, Head(ids), threshold),
                             Tail(ids), threshold)

-----------------------------------------------------------------------------
(* handleLoadComplete *)

\* a layerIds field: absent, or an array of layer ids
NoIds == [t |-> "undefined", a |-> << >>]
Ids(a) == [t |-> "array", a |-> a]

\* map.getStyle().layers, filtered to the circle layers with "lidar" in
\* their id, mapped to their ids
RECURSIVE StyleLidarIds(_, _)
StyleLidarIds(layers, order) ==
    IF order = << >> THEN << >>
    ELSE LET id == Head(order)
             keep == /\ layers[id].present
                     /\ LayerType(id) = "circle"
                     /\ includes(IdChars(id), <<"l","i","d","a","r">>)
         IN  (IF keep THEN << id >> ELSE << >>) \o StyleLidarIds(layers, Tail(order))

\* event?.detail?.layerIds || event?.layerIds || (the style's lidar layers)
EventLayerIds(event, layers) ==
    IF event.detail.t = "array" THEN event.detail.a
    ELSE IF event.top.t = "array" THEN event.top.a
    ELSE StyleLidarIds(layers, LayerOrder)

\* a variant: the new identifiers are added to the stored ones
StoreLayerIdsMerged(old, layerIds) == old \o layerIds

\* lidarLayerIdsRef.current = layerIds || []
StoreLayerIds(old, layerIds) == layerIds

handleLoadComplete(event) ==
    LET layerIds == StoreLayerIds(lidarLayerIds, EventLayerIds(event, mapLayers))
    IN  /\ lidarLayerIds' = layerIds
        /\ mapLayers' = applySeaLevelFilter(
                            applyColorScheme(mapLayers, layerIds, colorScheme),
                            layerIds, seaLevel)
        /\ sinceLoad' = { id \in Elems(layerIds) : mapLayers[id].present }
        /\ loadEvent' = << event >>

-----------------------------------------------------------------------------
(* The NOAA overlay: the fetch started by the map's load handler *)

\* a GeoJSON feature: null, or an object whose properties may be absent
\* and hold state and STATE (the field STATE_ here)
NullFeature ==
    [null |-> TRUE, props |-> FALSE, state |-> Undefined, STATE_ |-> Undefined]
Feature(state, STATE_) ==
    [null |-> FALSE, props |-> TRUE, state |-> state, STATE_ |-> STATE_]
BareFeature ==
    [null |-> FALSE, props |-> FALSE, state |-> Undefined, STATE_ |-> Undefined]

\* feature.properties?.state || feature.properties?.STATE
StateOf(feature) ==
    IF feature.props THEN Or(feature.state, feature.STATE_) ELSE Undefined

\* a variant: the state code is matched without being uppercased
KeepFeatureCaseSensitive(feature) ==
    LET state == StateOf(feature)
    IN  Truthy(state) /\ includes(state.s, <<"F", "L">>)

\* the predicate handed to filter
KeepFeature(feature) ==
    LET state == StateOf(feature)
    IN  Truthy(state) /\ includes(toUpperCase(state.s), <<"F", "L">>)

\* the parsed body: null, or an object whose features field is absent, an
\* array, or something that is no array
NullData == [null |-> TRUE, features |-> [t |-> "undefined", a |-> << >>]]
Data(t, a) == [null |-> FALSE, features |-> [t |-> t, a |-> a]]

\* what the network delivers: a rejected fetch, a body that is not JSON,
\* or a parsed body
NoResponse == [kind |-> "none", data |-> NullData]
NetworkError == [kind |-> "network-error", data |-> NullData]
BadJson == [kind |-> "bad-json", data |-> NullData]
Json(data) == [kind |-> "json", data |-> data]

\* whether the promise chain rejects before or inside the second then
FetchThrows(r) ==
    \/ r.kind # "json"
    \/ r.data.null
    \/ r.data.features.t = "other"
    \/ r.data.features.t = "array"
        /\ \E i \in 1..Len(r.data.features.a) : r.data.features.a[i].null

\* floridaFeatures || []
FloridaFeatures(data) ==
    IF data.features.t = "array"
    THEN SelectSeq(data.features.a, KeepFeature)
    ELSE << >>

NoSource == [t |-> "undefined", features |-> << >>]
GeoJsonSource(features) == [t |-> "geojson", features |-> features]

\* a variant: the rejection is not caught
FetchRejectedUncaught ==
    /\ fetchState' = "failed"
    /\ uncaught' = TRUE
    /\ UNCHANGED << console, noaaSource, noaaLayers >>

\* .catch: the failure is logged
FetchRejected ==
    /\ fetchState' = "failed"
    /\ console' = console \cup {"Failed to load NOAA SLR layer"}
    /\ UNCHANGED << uncaught, noaaSource, noaaLayers >>

\* the second then: the source and the two layers are added if missing
FetchFulfilled ==
    /\ fetchState' = "loaded"
    /\ noaaSource' = IF noaaSource.t = "undefined"
                     THEN GeoJsonSource(FloridaFeatures(response.data))
                     ELSE noaaSource
    /\ noaaLayers' = noaaLayers \cup {"noaa-slr-fill", "noaa-slr-outline"}
    /\ UNCHANGED << uncaught, console >>

-----------------------------------------------------------------------------
(* Inputs *)

\* slider positions the model tries (the slider runs from 0 to 50 tenths)
SliderInputs == { 15, 30 }
SliderInputsWide == { 0, 15, 30 }

\* elevations of the points a filter is tried on
ZSamples == { 0, 14, 15, 16, 29, 30, 31 }

LabelChars == { "Q", "q", "L", "l", "0", "1", "2", "3" }
\* a label argument: absent, or any string of at most MaxLabelLen characters
IsLabelInput(v) ==
    \/ v = Undefined
    \/ \E k \in 0..MaxLabelLen : \E s \in [1..k -> LabelChars] : v = Str(s)

\* descriptors: a label, and a (publicationDate, date) pair
DescriptorLabels == { Str(<<"Q", "L", "0">>), Str(<<"Q", "L", "2">>), Undefined }
DescriptorDates ==
    { << NoDate, NoDate >>,
      << NoDate, DateStr("2020-01-01") >>,
      << DateStr("2019-01-01"), NoDate >>,
      << DateStr("2021-01-01"), NoDate >>,
      << DateStr("unknown"), DateStr("2020-01-01") >> }
Descriptor(label, dates) ==
    [qualityLevel |-> label, publicationDate |-> dates[1], date |-> dates[2]]
Descriptors ==
    { Descriptor(l, d) : l \in DescriptorLabels, d \in DescriptorDates }
DescriptorSeqs(n) == UNION { [1..k -> Descriptors] : k \in 0..n }

\* search-complete events: the results under detail, under the event
\* itself, under both, or nowhere
SearchEvents(n) ==
    { [detail |-> Results(r), top |-> NoResults] : r \in DescriptorSeqs(n) }
    \cup { [detail |-> d, top |-> Results(r)] :
             d \in { NoResults, Results(<< >>) }, r \in DescriptorSeqs(1) }
    \cup { [detail |-> NoResults, top |-> NoResults] }

\* load-complete events over the given layer ids
IdSeqs(ids, n) == UNION { [1..k -> ids] : k \in 0..n }
LoadEvents(ids, n) ==
    { [detail |-> Ids(a), top |-> NoIds] : a \in IdSeqs(ids, n) }
    \cup { [detail |-> NoIds, top |-> Ids(a)] : a \in IdSeqs(ids, 1) }
    \cup { [detail |-> NoIds, top |-> NoIds] }

\* GeoJSON features and responses
StateCodes ==
    { Undefined, Str(<< >>), Str(<<"F", "L">>), Str(<<"f", "l">>), Str(<<"G", "A">>) }
Features ==
    { Feature(a, b) : a \in StateCodes, b \in { Undefined, Str(<<"F", "L">>) } }
    \cup { BareFeature, NullFeature }
FeatureSeqs(n) == UNION { [1..k -> Features] : k \in 0..n }
Responses(n) ==
    { NetworkError, BadJson, Json(NullData),
      Json(Data("undefined", << >>)), Json(Data("other", << >>)) }
    \cup { Json(Data("array", a)) : a \in FeatureSeqs(n) }

-----------------------------------------------------------------------------
(* Initial values *)

\* useState initial values, the overlay and the browser as the first
\* effect leaves them
RestInit ==
    /\ colorScheme = "elevation"
    /\ seaLevel = 15
    /\ basemapMode = "positron"
    /\ mapReady = FALSE
    /\ noaaSource = NoSource
    /\ noaaLayers = {}
    /\ fetchState = "none"
    /\ response = NoResponse
    /\ console = {}
    /\ uncaught = FALSE
    /\ sinceLoad = {}
    /\ loadEvent = << >>

\* useRef([]) and the new map, which has no layer of the control yet
AppInit ==
    /\ RestInit
    /\ lidarLayerIds = << >>
    /\ mapLayers = NoLayers

\* no search-complete event yet
SearchInit ==
    /\ loadCalls = << >>
    /\ searchEvent = [detail |-> NoResults, top |-> NoResults]
    /\ searchHandled = TRUE
    /\ sorted = << >>

\* the parts only the function-level specifications use
ApplyIdle == map0 = NoLayers /\ ops = << >>
QualityIdle == qlArg = Undefined /\ qlRet = {}

appVars == << colorScheme, seaLevel, basemapMode, mapReady, lidarLayerIds,
              mapLayers, noaaSource, noaaLayers, fetchState, response,
              console, uncaught, sinceLoad, loadEvent >>
searchVars == << controlHasLoad, loadCalls, searchEvent, searchHandled, sorted >>
fnVars == << map0, ops, qlArg, qlRet >>

-----------------------------------------------------------------------------
(* Actions of the session *)

\* <select onChange>: setColorScheme, then the effect on [colorScheme]
SelectColorScheme(v) ==
    /\ v # colorScheme
    /\ colorScheme' = v
    /\ mapLayers' = applyColorScheme(mapLayers, lidarLayerIds, v)
    /\ UNCHANGED << seaLevel, basemapMode, mapReady, lidarLayerIds, noaaSource,
                    noaaLayers, fetchState, response, console, uncaught,
                    sinceLoad, loadEvent, searchVars, fnVars >>

\* <input type="range" onChange>: setSeaLevel, then the effect on [seaLevel]
SlideSeaLevel(v) ==
    /\ v # seaLevel
    /\ seaLevel' = v
    /\ mapLayers' = applySeaLevelFilter(mapLayers, lidarLayerIds, v)
    /\ UNCHANGED << colorScheme, basemapMode, mapReady, lidarLayerIds, noaaSource,
                    noaaLayers, fetchState, response, console, uncaught,
                    sinceLoad, loadEvent, searchVars, fnVars >>

\* onLoadComplete
LoadComplete(event) ==
    /\ handleLoadComplete(event)
    /\ UNCHANGED << colorScheme, seaLevel, basemapMode, mapReady, noaaSource,
                    noaaLayers, fetchState, response, console, uncaught,
                    searchVars, fnVars >>

\* the LiDAR control adds a layer to the map
LayerAdded(id) ==
    /\ ~mapLayers[id].present
    /\ mapLayers' = [mapLayers EXCEPT ![id] = NewLayer]
    /\ UNCHANGED << colorScheme, seaLevel, basemapMode, mapReady, lidarLayerIds,
                    noaaSource, noaaLayers, fetchState, response, console,
                    uncaught, sinceLoad, loadEvent, searchVars, fnVars >>

\* the LiDAR control removes a layer from the map
LayerRemoved(id) ==
    /\ mapLayers[id].present
    /\ mapLayers' = [mapLayers EXCEPT ![id] = NoLayer]
    /\ sinceLoad' = sinceLoad \ {id}
    /\ UNCHANGED loadEvent
    /\ UNCHANGED << colorScheme, seaLevel, basemapMode, mapReady, lidarLayerIds,
                    noaaSource, noaaLayers, fetchState, response, console,
                    uncaught, searchVars, fnVars >>

\* handleToggleBasemap, then the effect on [baseStyle]: the map is removed
\* and a new one created. A fetch still pending belongs to the removed map;
\* whether its handlers fail on that map, and so log, is the map library's
\* matter.
ToggleBasemap ==
    /\ basemapMode' = IF basemapMode = "satellite" THEN "lidar" ELSE "satellite"
    /\ mapReady' = FALSE
    /\ mapLayers' = NoLayers
    /\ noaaSource' = NoSource
    /\ noaaLayers' = {}
    /\ fetchState' = "none"
    /\ response' = NoResponse
    /\ sinceLoad' = {}
    /\ UNCHANGED loadEvent
    /\ console' \in IF fetchState = "pending"
                    THEN { console, console \cup {"Failed to load NOAA SLR layer"} }
                    ELSE { console }
    /\ UNCHANGED << colorScheme, seaLevel, lidarLayerIds, uncaught,
                    searchVars, fnVars >>

\* map.on("load"): setMapReady(true) and the fetch of NOAA_SLR_URL, which
\* the network will answer with one of the given responses
MapLoad(responses) ==
    /\ ~mapReady
    /\ mapReady' = TRUE
    /\ fetchState' = "pending"
    /\ response' \in responses
    /\ UNCHANGED << colorScheme, seaLevel, basemapMode, lidarLayerIds, mapLayers,
                    noaaSource, noaaLayers, console, uncaught, sinceLoad, loadEvent,
                    searchVars, fnVars >>

\* the fetch settles: the then handlers, or the catch
FetchSettled ==
    /\ fetchState = "pending"
    /\ IF FetchThrows(response) THEN FetchRejected ELSE FetchFulfilled
    /\ UNCHANGED << colorScheme, seaLevel, basemapMode, mapReady, lidarLayerIds,
                    mapLayers, response, sinceLoad, loadEvent, searchVars, fnVars >>

\* onSearchComplete
SearchComplete(event) ==
    /\ Len(loadCalls) < MaxLoads
    /\ searchEvent' = event
    /\ searchHandled' = TRUE
    /\ handleSearchComplete(event)
    /\ UNCHANGED << colorScheme, seaLevel, basemapMode, mapReady, lidarLayerIds,
                    mapLayers, noaaSource, noaaLayers, fetchState, response,
                    uncaught, sinceLoad, loadEvent, controlHasLoad, fnVars >>

-----------------------------------------------------------------------------
(* The session: every handler of App, the LiDAR control adding and removing
   its point layer, the network answering the fetch *)

SessionLayers == { "usgs-lidar-points" }
SessionResponses ==
    { NetworkError, BadJson,
      Json(Data("array", << Feature(Str(<<"F", "L">>), Undefined),
                            Feature(Str(<<"G", "A">>), Undefined) >>)) }
SessionSearches ==
    { [detail |-> Results(<< >>), top |-> NoResults],
      [detail |-> Results(<< Descriptor(Str(<<"Q", "L", "2">>),
                                        << NoDate, DateStr("2020-01-01") >>),
                             Descriptor(Str(<<"Q", "L", "0">>),
                                        << DateStr("2021-01-01"), NoDate >>) >>),
       top |-> NoResults] }

Init ==
    /\ AppInit
    /\ SearchInit
    /\ controlHasLoad = TRUE
    /\ ApplyIdle
    /\ QualityIdle

Next ==
    \/ \E v \in ColorSchemes : SelectColorScheme(v)
    \/ \E v \in SliderInputs : SlideSeaLevel(v)
    \/ \E e \in LoadEvents(SessionLayers, MaxLayerIds) : LoadComplete(e)
    \/ \E id \in SessionLayers : LayerAdded(id)
    \/ \E id \in SessionLayers : LayerRemoved(id)
    \/ ToggleBasemap
    \/ MapLoad(SessionResponses)
    \/ FetchSettled
    \/ \E e \in SessionSearches : SearchComplete(e)

Spec == Init /\ [][Next]_vars

-----------------------------------------------------------------------------
(* The styling session: both layers of the control, every load-complete
   event over them *)

NextStyle ==
    \/ \E v \in ColorSchemes : SelectColorScheme(v)
    \/ \E v \in SliderInputs : SlideSeaLevel(v)
    \/ \E e \in LoadEvents(LayerUniverse, MaxLayerIds) : LoadComplete(e)
    \/ \E id \in LayerUniverse : LayerAdded(id)
    \/ \E id \in LayerUniverse : LayerRemoved(id)
    \/ ToggleBasemap

SpecStyle == Init /\ [][NextStyle]_vars

-----------------------------------------------------------------------------
(* The overlay: the map loads, the network answers with any response *)

NextFeed ==
    \/ MapLoad(Responses(MaxFeatures))
    \/ FetchSettled

SpecFeed == Init /\ [][NextFeed]_vars

-----------------------------------------------------------------------------
(* handleSearchComplete on any search-complete event *)

InitRank ==
    /\ AppInit
    /\ controlHasLoad \in BOOLEAN
    /\ loadCalls = << >>
    /\ searchEvent \in SearchEvents(MaxResults)
    /\ searchHandled = FALSE
    /\ sorted = << >>
    /\ ApplyIdle
    /\ QualityIdle

DeliverSearchComplete ==
    /\ ~searchHandled
    /\ searchHandled' = TRUE
    /\ handleSearchComplete(searchEvent)
    /\ UNCHANGED << colorScheme, seaLevel, basemapMode, mapReady, lidarLayerIds,
                    mapLayers, noaaSource, noaaLayers, fetchState, response,
                    uncaught, sinceLoad, loadEvent, controlHasLoad, searchEvent, fnVars >>

SpecRank == InitRank /\ [][DeliverSearchComplete]_vars

-----------------------------------------------------------------------------
(* applyColorScheme and applySeaLevelFilter on any map and layer set *)

\* a layer as the control may have left it
ControlLayers ==
    { NoLayer }
    \cup { [present |-> TRUE, paint |-> p, filter |-> f] :
             p \in { << >>, PaintExpr("classification") },
             f \in { << >>, ControlFilter } }

ColorOp(scheme) == [op |-> "color", scheme |-> scheme, threshold |-> 0]
SeaOp(threshold) == [op |-> "sea", scheme |-> "", threshold |-> threshold]

InitApply ==
    /\ RestInit
    /\ SearchInit
    /\ controlHasLoad = TRUE
    /\ QualityIdle
    /\ mapLayers \in [LayerUniverse -> ControlLayers]
    /\ lidarLayerIds \in IdSeqs(LayerUniverse, MaxLayerIds)
    /\ map0 = mapLayers
    /\ ops = << >>

CallApplyColorScheme(scheme) ==
    /\ Len(ops) < MaxOps
    /\ mapLayers' = applyColorScheme(mapLayers, lidarLayerIds, scheme)
    /\ ops' = Append(ops, ColorOp(scheme))
    /\ UNCHANGED << colorScheme, seaLevel, basemapMode, mapReady, lidarLayerIds,
                    noaaSource, noaaLayers, fetchState, response, console,
                    uncaught, sinceLoad, loadEvent, searchVars, map0, qlArg, qlRet >>

CallApplySeaLevelFilter(threshold) ==
    /\ Len(ops) < MaxOps
    /\ mapLayers' = applySeaLevelFilter(mapLayers, lidarLayerIds, threshold)
    /\ ops' = Append(ops, SeaOp(threshold))
    /\ UNCHANGED << colorScheme, seaLevel, basemapMode, mapReady, lidarLayerIds,
                    noaaSource, noaaLayers, fetchState, response, console,
                    uncaught, sinceLoad, loadEvent, searchVars, map0, qlArg, qlRet >>

NextApply ==
    \/ \E scheme \in ColorSchemes : CallApplyColorScheme(scheme)
    \/ \E threshold \in SliderInputsWide : CallApplySeaLevelFilter(threshold)

SpecApply == InitApply /\ [][NextApply]_vars

-----------------------------------------------------------------------------
(* getQualityScore on any label *)

InitQuality ==
    /\ AppInit
    /\ SearchInit
    /\ controlHasLoad = TRUE
    /\ ApplyIdle
    /\ IsLabelInput(qlArg)
    /\ qlRet = {}

CallGetQualityScore ==
    /\ qlRet = {}
    /\ qlRet' = { getQualityScore(qlArg) }
    /\ UNCHANGED << appVars, searchVars, map0, ops, qlArg >>

SpecQuality == InitQuality /\ [][CallGetQualityScore]_vars

-----------------------------------------------------------------------------
(* Properties of getQualityScore (SpecQuality) *)

Digit(k) == << "0", "1", "2", "3" >>[k + 1]

\* the label, whatever its case, has Q, L and the digit k in a row somewhere
HasLabel(v, k) ==
    /\ v.t = "string"
    /\ \E i \in 1..(Len(v.s) - 2) :
        /\ v.s[i] \in { "Q", "q" }
        /\ v.s[i + 1] \in { "L", "l" }
        /\ v.s[i + 2] = Digit(k)

\* C2, as claimed: a label containing QLk (any case, any surrounding text)
\* scores k, for k = 0..3; any other value scores 9; the score is always
\* one of 0, 1, 2, 3, 9.
C2_LabelScoresItsLevel ==
    \A r \in qlRet :
        /\ \A k \in 0..3 : HasLabel(qlArg, k) => r = k
        /\ (\A k \in 0..3 : ~HasLabel(qlArg, k)) => r = 9
        /\ r \in { 0, 1, 2, 3, 9 }

\* C2, amended: the score is the lowest k in 0..3 for which the label
\* contains QLk (any case, any surrounding text), and 9 when it contains
\* none; so it is always one of 0, 1, 2, 3, 9.
C2_LabelScoresItsLowestLevel ==
    \A r \in qlRet :
        /\ \A k \in 0..3 :
            (HasLabel(qlArg, k) /\ \A j \in 0..(k - 1) : ~HasLabel(qlArg, j)) => r = k
        /\ (\A k \in 0..3 : ~HasLabel(qlArg, k)) => r = 9
        /\ r \in { 0, 1, 2, 3, 9 }

\* a lower-case label inside other text has been scored, next to a second,
\* higher label
C2_Witness ==
    /\ qlRet = { 1 }
    /\ qlArg = Str(<< "q", "l", "1", "Q", "L", "3" >>)

-----------------------------------------------------------------------------
(* Properties of handleSearchComplete (SpecRank) *)

\* the timestamp the ranking is said to use: the date's instant, epoch
\* zero when the date is missing or cannot be parsed
ClaimedTime(d) == IF TimeOf(d).nan THEN 0 ELSE TimeOf(d).v

ExampleResults ==
    << Descriptor(Str(<<"Q", "L", "2">>), << NoDate, DateStr("2020-01-01") >>),
       Descriptor(Str(<<"Q", "L", "0">>), << DateStr("2019-01-01"), NoDate >>),
       Descriptor(Str(<<"Q", "L", "0">>), << DateStr("2021-01-01"), NoDate >>) >>

\* C1: the descriptor passed to loadDataset has the minimum quality score
\* of the results and, among those with that score, the latest timestamp;
\* so no unlabelled descriptor is loaded while a labelled one is present.
\* For the example results the one loaded is {QL0, 2021-01-01}.
C1_BestIsLoaded ==
    (searchHandled /\ loadCalls # << >>) =>
        LET results == EventResults(searchEvent)
            best == loadCalls[1]
        IN  /\ best \in Elems(results)
            /\ \A d \in Elems(results) :
                /\ getQualityScore(best.qualityLevel) <= getQualityScore(d.qualityLevel)
                /\ getQualityScore(best.qualityLevel) = getQualityScore(d.qualityLevel)
                     => ClaimedTime(d) <= ClaimedTime(best)
            /\ results = ExampleResults => best = ExampleResults[3]

\* C3: in the sorted array a descriptor whose date is missing or cannot be
\* parsed comes after every descriptor of equal quality that has a valid
\* date later than the epoch, whatever the input order; and the sort
\* completes, keeping every descriptor.
C3_BadDateRanksAsEpoch ==
    (searchHandled /\ EventResults(searchEvent) # << >>) =>
        /\ ~uncaught
        /\ sorted \in Arrangements(EventResults(searchEvent))
        /\ \A i, j \in 1..Len(sorted) :
            ( /\ getQualityScore(sorted[i].qualityLevel)
                   = getQualityScore(sorted[j].qualityLevel)
              /\ ClaimedTime(sorted[i]) = 0
              /\ ~TimeOf(sorted[j]).nan /\ TimeOf(sorted[j]).v > 0 ) => j < i

\* the event carries an empty results array, or none
CarriesNoResults(event) ==
    \/ event.detail.t = "array" /\ event.detail.a = << >>
    \/ event.detail.t = "undefined" /\ event.top.t = "array" /\ event.top.a = << >>
    \/ event.detail.t = "undefined" /\ event.top.t = "undefined"

\* C4: after a search-complete event with an empty results array, or with
\* no results field, loadDataset has not been called and the application
\* state is as before.
C4_EmptySearchLoadsNothing ==
    (searchHandled /\ CarriesNoResults(searchEvent)) =>
        /\ loadCalls = << >>
        /\ sorted = << >>
        /\ colorScheme = "elevation" /\ seaLevel = 15
        /\ basemapMode = "positron" /\ mapReady = FALSE
        /\ lidarLayerIds = << >> /\ mapLayers = NoLayers
        /\ noaaSource = NoSource /\ noaaLayers = {}
        /\ ~uncaught

\* an event with an empty array under detail and a descriptor under the
\* event itself has been handled, the control able to load
C4_Witness ==
    /\ searchHandled
    /\ controlHasLoad
    /\ searchEvent.detail = Results(<< >>)
    /\ searchEvent.top.t = "array" /\ searchEvent.top.a # << >>
    /\ loadCalls = << >>

-----------------------------------------------------------------------------
(* Properties of applyColorScheme and applySeaLevelFilter (SpecApply) *)

Last(s) == s[Len(s)]
Point(z, c) == [Z |-> z, Classification |-> c]

\* C5: after colour schemes only have been applied, one after another, the
\* point-color of every layer is what one application of the last scheme
\* to the original map gives, and on every present layer of the set it is
\* that scheme's expression.
C5_LastSchemeWins ==
    (ops # << >> /\ \A i \in 1..Len(ops) : ops[i].op = "color") =>
        \A id \in LayerUniverse :
            /\ mapLayers[id].paint
                 = applyColorScheme(map0, lidarLayerIds, Last(ops).scheme)[id].paint
            /\ (id \in Elems(lidarLayerIds) /\ map0[id].present)
                 => mapLayers[id].paint = PaintExpr(Last(ops).scheme)

\* classification then elevation have been applied to a set with a present
\* layer that had no paint
C5_Witness ==
    /\ ops = << ColorOp("classification"), ColorOp("elevation") >>
    /\ \E id \in Elems(lidarLayerIds) :
        /\ map0[id].present /\ map0[id].paint = << >>
        /\ mapLayers[id].paint = PaintExpr("elevation")

\* C6: once applySeaLevelFilter(t) is the last filter call, every present
\* layer of the set renders exactly the points with Z >= t, whatever filter
\* it had before; for t = 1.5 it renders Z = 1.5 and Z = 3.0 and not Z = 1.4.
C6_FilterKeepsAtOrAboveThreshold ==
    \A n \in 1..Len(ops) :
        (ops[n].op = "sea" /\ \A m \in (n + 1)..Len(ops) : ops[m].op # "sea") =>
            \A id \in Elems(lidarLayerIds) :
                mapLayers[id].present =>
                    /\ \A z \in ZSamples, c \in { 2, 7 } :
                        FilterAccepts(mapLayers[id].filter, Point(z, c))
                            <=> z >= ops[n].threshold
                    /\ ops[n].threshold = 15 =>
                        /\ FilterAccepts(mapLayers[id].filter, Point(15, 7))
                        /\ FilterAccepts(mapLayers[id].filter, Point(30, 7))
                        /\ ~FilterAccepts(mapLayers[id].filter, Point(14, 7))

\* thresholds 3.0 then 1.5 have been applied to a set with a present layer
\* that carried a filter of the control
C6_Witness ==
    /\ ops = << SeaOp(30), SeaOp(15) >>
    /\ \E id \in Elems(lidarLayerIds) :
        /\ map0[id].present /\ map0[id].filter = ControlFilter
        /\ mapLayers[id].filter = << ">=", <<"get", "Z">>, 15 >>

\* C9: a call leaves every identifier that is not in the map without paint
\* and without filter, raises nothing, and gives every identifier of the
\* set that is in the map the paint or filter of that call.
C9_AbsentLayersSkipped ==
    /\ ~uncaught
    /\ \A id \in LayerUniverse : ~map0[id].present => mapLayers[id] = NoLayer
    /\ ops # << >> =>
        \A id \in Elems(lidarLayerIds) :
            map0[id].present =>
                IF Last(ops).op = "color"
                THEN mapLayers[id].paint = PaintExpr(Last(ops).scheme)
                ELSE mapLayers[id].filter = SeaLevelFilter(Last(ops).threshold)

\* a scheme has been applied to a set whose first identifier is not in the
\* map and whose second is
C9_Witness ==
    /\ ops = << ColorOp("rgb") >>
    /\ Len(lidarLayerIds) = 2
    /\ ~map0[lidarLayerIds[1]].present
    /\ map0[lidarLayerIds[2]].present
    /\ mapLayers[lidarLayerIds[2]].paint = PaintExpr("rgb")

-----------------------------------------------------------------------------
(* Properties of the styling session (SpecStyle) *)

\* C10: every identifier of the stored layer set that was in the map at
\* the last load completion and has been since carries the paint of the
\* selected scheme and the filter Z >= the selected sea level; and the
\* stored set is exactly the last load-complete event's.
C10_StoredLayersCarryCurrentStyle ==
    /\ \A id \in sinceLoad :
        /\ id \in Elems(lidarLayerIds)
        /\ mapLayers[id].present
        /\ mapLayers[id].paint = PaintExpr(colorScheme)
        /\ \A z \in ZSamples :
            FilterAccepts(mapLayers[id].filter, Point(z, 2)) <=> z >= seaLevel
    /\ \A i \in 1..Len(loadEvent) :
        /\ loadEvent[i].detail.t = "array" => lidarLayerIds = loadEvent[i].detail.a
        /\ (loadEvent[i].detail.t = "undefined" /\ loadEvent[i].top.t = "array")
              => lidarLayerIds = loadEvent[i].top.a
        /\ (loadEvent[i].detail.t = "undefined" /\ loadEvent[i].top.t = "undefined")
              => Elems(lidarLayerIds) \subseteq { "usgs-lidar-points" }

\* after a load completion the scheme and the sea level were both changed,
\* and a layer there since the load carries them
C10_Witness ==
    /\ colorScheme = "rgb"
    /\ seaLevel = 30
    /\ \E id \in sinceLoad :
        /\ mapLayers[id].paint = PaintExpr("rgb")
        /\ mapLayers[id].filter = << ">=", <<"get", "Z">>, 30 >>

-----------------------------------------------------------------------------
(* Properties of the overlay (SpecFeed, Spec) *)

\* the feature's state (STATE when it has no state), whatever its case,
\* has F and L in a row somewhere
ContainsFL(feature) ==
    LET v == IF ~feature.props THEN Undefined
             ELSE IF feature.state.t = "string" /\ feature.state.s # << >>
                  THEN feature.state
                  ELSE feature.STATE_
    IN  /\ v.t = "string"
        /\ \E i \in 1..(Len(v.s) - 1) :
            v.s[i] \in { "F", "f" } /\ v.s[i + 1] \in { "L", "l" }

ExampleFeatures ==
    << Feature(Str(<<"F", "L">>), Undefined), Feature(Str(<<"f", "l">>), Undefined),
       Feature(Str(<<"G", "A">>), Undefined), Feature(Undefined, Undefined) >>

\* C7: the overlay's source holds exactly the fetched features whose state
\* (or STATE), uppercased, contains FL, in their order; of features with
\* state FL, fl, GA and none, the first two.
C7_FloridaFeaturesKept ==
    (fetchState = "loaded" /\ response.data.features.t = "array") =>
        /\ noaaSource.t = "geojson"
        /\ noaaSource.features = SelectSeq(response.data.features.a, ContainsFL)
        /\ response.data.features.a = ExampleFeatures
             => noaaSource.features = SubSeq(ExampleFeatures, 1, 2)

\* the example features have been fetched and filtered
C7_Witness ==
    /\ fetchState = "loaded"
    /\ response.data.features.a = ExampleFeatures
    /\ Len(noaaSource.features) = 2

\* C8: once the fetch has failed the failure is logged, the map shows no
\* overlay feature, no error has escaped, the map is still ready, and the
\* colour-scheme and sea-level controls still act.
C8_FetchFailureIsNotFatal ==
    fetchState = "failed" =>
        /\ "Failed to load NOAA SLR layer" \in console
        /\ noaaSource.features = << >>
        /\ noaaLayers = {}
        /\ ~uncaught
        /\ mapReady
        /\ ENABLED (\E v \in ColorSchemes : SelectColorScheme(v))
        /\ ENABLED (\E v \in SliderInputs : SlideSeaLevel(v))

\* after a rejected fetch a search has loaded a dataset and the scheme has
\* been changed on a loaded layer
C8_Witness ==
    /\ fetchState = "failed"
    /\ response = NetworkError
    /\ loadCalls # << >>
    /\ colorScheme = "rgb"
    /\ \E id \in sinceLoad : mapLayers[id].paint = PaintExpr("rgb")

=============================================================================
